---- MODULE Spec2Model ----
(***************************************************************************)
(* Fish Audio TTS plugin (livekit/plugins/fishaudio/tts.py).               *)
(*                                                                         *)
(* Two state machines share the audio sink log and the operation result:  *)
(*   SpecChunked : ChunkedStream._run, the batched synthesis with the     *)
(*                 blocking generator bridged through courier_queue;      *)
(*   SpecStream  : Stream._run, the duplex session with the sender and    *)
(*                 receiver loops joined by asyncio.gather.               *)
(***************************************************************************)
EXTENDS Integers, Sequences, FiniteSets, TLC

VARIABLES
  mode,           \* "chunked" or "stream": which _run this behaviour is
  sink,           \* the calls made on output_emitter, in order
  result,         \* what _run did: "running", "ok" or the exception raised
  cause,          \* __cause__ of the exception raised ("none" when absent)
  nCancel,        \* how many times the operation's task was cancelled
  \* ---- ChunkedStream._run
  gen,            \* the chunks self._ws.tts(...) yields
  genRaises,      \* whether the generator raises after yielding them
  wpc,            \* run_tts position in the executor thread
  wi,             \* chunks the generator has yielded so far
  ready,          \* callbacks scheduled by call_soon_threadsafe, FIFO
  courier_queue,  \* the asyncio.Queue
  enqLog,         \* every item put on courier_queue so far, in order
  cpc,            \* the consumer's position in _run
  error,          \* the local `error`
  \* ---- Stream._run
  opc,            \* position of _run itself
  exc,            \* the exception propagating out of the `async with` body
  sent,           \* the frames written with ws.send_bytes, in order
  received,       \* the frames ws.receive_bytes returned, in order
  inLog,          \* the items the sender took from self._input_ch, in order
  closed,         \* the input channel was exhausted
  stask,          \* send_task: "none", "pending", "done", "failed", "cancelled"
  sexc,           \* the exception send_task ended with
  rtask,          \* recv_task, likewise
  scancel,        \* send_task.cancel() was requested
  rcancel,        \* recv_task.cancel() was requested
  gfut,           \* the gather future: "none", "pending", "done"
  gexc,           \* the exception gather was completed with
  mustCancel,     \* _run's task was cancelled after gather had completed
  spc,            \* position of _send_loop
  pending,        \* _send_loop's `pending`
  started,        \* _send_loop's `started`
  last_sent,      \* _send_loop's `last_sent`
  force,          \* the `force` argument of the running _flush_pending
  text_raw,       \* _flush_pending's `text_raw`, between its sends
  nMarked,        \* how many times self._mark_started() was called
  nAccepted       \* how many flushes got past the dedup check (line 237)

chunkedVars == <<gen, genRaises, wpc, wi, ready, courier_queue, enqLog, cpc, error>>
streamVars == <<opc, exc, sent, received, inLog, closed, stask, sexc, rtask, scancel,
                rcancel, gfut, gexc, mustCancel, spc, pending, started, last_sent,
                force, text_raw, nMarked, nAccepted>>
sharedVars == <<mode, sink, result, cause, nCancel>>
vars == <<sharedVars, chunkedVars, streamVars>>

\* ---------------------------------------------------------------- bounds
MaxChunks == 3
MaxCancel == 1
MaxInput == 4
MaxRecv == 2
MaxEvents == 6

Chunks == {"b1", "b2"}

\* ------------------------------------------------------------ sink calls
SinkCall(name, data) == [call |-> name, data |-> data]

RECURSIVE Pushes(_)
\* the payloads of the push() calls of a sink log, in order
Pushes(log) ==
  IF log = <<>> THEN <<>>
  ELSE IF Head(log).call = "push" THEN <<Head(log).data>> \o Pushes(Tail(log))
       ELSE Pushes(Tail(log))

RECURSIVE CountCalls(_, _)
CountCalls(log, name) ==
  IF log = <<>> THEN 0
  ELSE (IF Head(log).call = name THEN 1 ELSE 0) + CountCalls(Tail(log), name)

SeqsUpTo(S, n) == UNION {[1..k -> S] : k \in 0..n}

\* ------------------------------------------------- ChunkedStream._run
ChunkItem(c) == [kind |-> "chunk", data |-> c]
ExcItem == [kind |-> "exc", data |-> "BackendError"]
Sentinel == [kind |-> "sentinel", data |-> ""]

ChunkedInit ==
  /\ gen \in SeqsUpTo(Chunks, MaxChunks)
  /\ genRaises \in BOOLEAN
  /\ wpc = "notstarted"
  /\ wi = 0
  /\ ready = <<>>
  /\ courier_queue = <<>>
  /\ enqLog = <<>>
  /\ cpc = "start"
  /\ error = "none"

\* the state of the batched variables in a streaming session
ChunkedInitIdle ==
  /\ gen = <<>>
  /\ genRaises = FALSE
  /\ wpc = "notstarted"
  /\ wi = 0
  /\ ready = <<>>
  /\ courier_queue = <<>>
  /\ enqLog = <<>>
  /\ cpc = "start"
  /\ error = "none"

\* lines 130-154: the request is built, the worker submitted to the executor,
\* the emitter initialized, error = None
RunStart ==
  /\ mode = "chunked" /\ cpc = "start"
  /\ wpc' = "iter"
  /\ sink' = Append(sink, SinkCall("initialize", "chunked"))
  /\ error' = "none"
  /\ cpc' = "get"
  /\ UNCHANGED <<mode, result, cause, nCancel, gen, genRaises, wi, ready, courier_queue, enqLog>>

\* line 139-140: the generator yields its next chunk
WorkerYield ==
  /\ wpc = "iter" /\ wi < Len(gen)
  /\ wi' = wi + 1
  /\ ready' = Append(ready, ChunkItem(gen[wi + 1]))
  /\ UNCHANGED <<sharedVars, gen, genRaises, wpc, courier_queue, enqLog, cpc, error>>

\* line 141-142: the generator raises; the exception is handed over
WorkerRaise ==
  /\ wpc = "iter" /\ wi = Len(gen) /\ genRaises
  /\ ready' = Append(ready, ExcItem)
  /\ wpc' = "finally"
  /\ UNCHANGED <<sharedVars, gen, genRaises, wi, courier_queue, enqLog, cpc, error>>

\* line 139: the generator is exhausted
WorkerExhausted ==
  /\ wpc = "iter" /\ wi = Len(gen) /\ ~genRaises
  /\ wpc' = "finally"
  /\ UNCHANGED <<sharedVars, gen, genRaises, wi, ready, courier_queue, enqLog, cpc, error>>

\* mutant: the sentinel is put only when the generator ended without raising
WorkerFinallyOnSuccessOnly ==
  /\ wpc = "finally"
  /\ ready' = IF genRaises THEN ready ELSE Append(ready, Sentinel)
  /\ wpc' = "returning"
  /\ UNCHANGED <<sharedVars, gen, genRaises, wi, courier_queue, enqLog, cpc, error>>

\* line 143-144
WorkerFinally ==
  /\ wpc = "finally"
  /\ ready' = Append(ready, Sentinel)
  /\ wpc' = "returning"
  /\ UNCHANGED <<sharedVars, gen, genRaises, wi, courier_queue, enqLog, cpc, error>>

\* run_tts returns: the executor future completes
WorkerReturn ==
  /\ wpc = "returning"
  /\ wpc' = "done"
  /\ UNCHANGED <<sharedVars, gen, genRaises, wi, ready, courier_queue, enqLog, cpc, error>>

\* the event loop runs the oldest scheduled courier_queue.put_nowait
LoopCallback ==
  /\ ready /= <<>>
  /\ courier_queue' = Append(courier_queue, Head(ready))
  /\ enqLog' = Append(enqLog, Head(ready))
  /\ ready' = Tail(ready)
  /\ UNCHANGED <<sharedVars, gen, genRaises, wpc, wi, cpc, error>>

\* lines 155-163: one iteration of the drain loop
ConsumerGet ==
  /\ cpc = "get" /\ courier_queue /= <<>>
  /\ LET item == Head(courier_queue) IN
       /\ courier_queue' = Tail(courier_queue)
       /\ cpc' = IF item.kind = "sentinel" THEN "await_worker" ELSE "get"
       /\ error' = IF item.kind = "exc" THEN item.data ELSE error
       /\ sink' = IF item.kind = "chunk" /\ error = "none"
                  THEN Append(sink, SinkCall("push", item.data))
                  ELSE sink
  /\ UNCHANGED <<mode, result, cause, nCancel, gen, genRaises, wpc, wi, ready, enqLog>>

\* mutant: `await worker` is left out, the result is decided once the drain loop ends
AwaitWorkerNoWait ==
  /\ cpc = "await_worker"
  /\ cpc' = "done"
  /\ IF error /= "none"
     THEN /\ result' = "APIConnectionError"
          /\ cause' = error
          /\ sink' = sink
     ELSE /\ sink' = Append(sink, SinkCall("flush", ""))
          /\ result' = "ok"
          /\ cause' = cause
  /\ UNCHANGED <<mode, nCancel, gen, genRaises, wpc, wi, ready, courier_queue, enqLog, error>>

\* mutant: flush() is called before `error` is looked at
AwaitWorkerFlushesFirst ==
  /\ cpc = "await_worker" /\ wpc = "done"
  /\ cpc' = "done"
  /\ sink' = Append(sink, SinkCall("flush", ""))
  /\ IF error /= "none"
     THEN result' = "APIConnectionError" /\ cause' = error
     ELSE result' = "ok" /\ cause' = cause
  /\ UNCHANGED <<mode, nCancel, gen, genRaises, wpc, wi, ready, courier_queue, enqLog, error>>

\* lines 165-170: the worker has finished; raise or flush
AwaitWorker ==
  /\ cpc = "await_worker" /\ wpc = "done"
  /\ cpc' = "done"
  /\ IF error /= "none"
     THEN /\ result' = "APIConnectionError"
          /\ cause' = error
          /\ sink' = sink
     ELSE /\ sink' = Append(sink, SinkCall("flush", ""))
          /\ result' = "ok"
          /\ cause' = cause
  /\ UNCHANGED <<mode, nCancel, gen, genRaises, wpc, wi, ready, courier_queue, enqLog, error>>

\* the task running _run is cancelled while suspended in courier_queue.get()
\* or in `await worker`: CancelledError is not an Exception, line 169 lets it through
ChunkedCancel ==
  /\ mode = "chunked" /\ nCancel < MaxCancel
  /\ \/ cpc = "get" /\ courier_queue = <<>>
     \/ cpc = "await_worker" /\ wpc /= "done"
  /\ cpc' = "done"
  /\ result' = "CancelledError"
  /\ nCancel' = nCancel + 1
  /\ UNCHANGED <<mode, sink, cause, gen, genRaises, wpc, wi, ready, courier_queue, enqLog, error>>

ChunkedStep ==
  \/ RunStart
  \/ WorkerYield
  \/ WorkerRaise
  \/ WorkerExhausted
  \/ WorkerFinally
  \/ WorkerReturn
  \/ LoopCallback
  \/ ConsumerGet
  \/ AwaitWorker
  \/ ChunkedCancel

SharedInit ==
  /\ sink = <<>>
  /\ result = "running"
  /\ cause = "none"
  /\ nCancel = 0

\* ------------------------------------------------------- Stream._run
\* Text is a sequence of characters; " " stands for whitespace.
Fragments == {<<" ">>, <<"a">>}

TextItem(f) == [kind |-> "text", text |-> f]
FlushSentinel == [kind |-> "flush", text |-> <<>>]

\* outbound frames (lines 241-244, 258, 288-290)
Frame(ev, txt) == [event |-> ev, text |-> txt]
StartFrame == Frame("start", <<>>)
FlushFrame == Frame("flush", <<>>)
StopFrame == Frame("stop", <<>>)

\* inbound frames as _recv_loop sees them after ormsgpack.unpackb
AudioPayloads == Chunks \cup {""}
InFrame(ev, data) == [event |-> ev, data |-> data]

\* exceptions: the class and the __cause__ it was raised from
Exc(type, from) == [type |-> type, cause |-> from]
NoExc == Exc("none", "none")
Cancelled == Exc("CancelledError", "none")

\* what ws.send_bytes can raise
SendErrors == {"WebSocketNetworkError", "LocalProtocolError"}
\* what entering aconnect_ws can raise
ConnectErrors == {"WebSocketUpgradeError", "HTTPError", "TimeoutError"}

RECURSIVE LStrip(_)
LStrip(s) == IF s /= <<>> /\ Head(s) = " " THEN LStrip(Tail(s)) ELSE s

RECURSIVE RStrip(_)
RStrip(s) ==
  IF s /= <<>> /\ s[Len(s)] = " " THEN RStrip(SubSeq(s, 1, Len(s) - 1)) ELSE s

\* str.strip()
Strip(s) == RStrip(LStrip(s))

RECURSIVE Join(_)
\* "".join(pending)
Join(frags) == IF frags = <<>> THEN <<>> ELSE Head(frags) \o Join(Tail(frags))

\* mutant: the dedup check of line 235 is missing
FlushPendingNoDedup(pend, st, last, frc) ==
  IF pend = <<>>
  THEN [pending |-> pend, started |-> st, last_sent |-> last,
        mark |-> FALSE, send |-> FALSE, text_raw |-> <<>>]
  ELSE LET raw == Join(pend)
           normalized == Strip(raw)
       IN IF normalized = <<>>
          THEN [pending |-> <<>>, started |-> st, last_sent |-> last,
                mark |-> FALSE, send |-> FALSE, text_raw |-> <<>>]
          ELSE [pending |-> <<>>, started |-> TRUE, last_sent |-> normalized,
                mark |-> ~st, send |-> TRUE, text_raw |-> raw]

\* mutant: pending.clear() is missing and last_sent keeps the raw text
FlushPendingKeepsPending(pend, st, last, frc) ==
  IF pend = <<>>
  THEN [pending |-> pend, started |-> st, last_sent |-> last,
        mark |-> FALSE, send |-> FALSE, text_raw |-> <<>>]
  ELSE LET raw == Join(pend)
           normalized == Strip(raw)
       IN IF normalized = <<>>
          THEN [pending |-> pend, started |-> st, last_sent |-> last,
                mark |-> FALSE, send |-> FALSE, text_raw |-> <<>>]
          ELSE IF ~frc /\ normalized = last
          THEN [pending |-> pend, started |-> st, last_sent |-> last,
                mark |-> FALSE, send |-> FALSE, text_raw |-> <<>>]
          ELSE [pending |-> pend, started |-> TRUE, last_sent |-> raw,
                mark |-> ~st, send |-> TRUE, text_raw |-> raw]

\* mutant: the dedup check does not look at `force`
FlushPendingIgnoresForce(pend, st, last, frc) ==
  IF pend = <<>>
  THEN [pending |-> pend, started |-> st, last_sent |-> last,
        mark |-> FALSE, send |-> FALSE, text_raw |-> <<>>]
  ELSE LET raw == Join(pend)
           normalized == Strip(raw)
       IN IF normalized = <<>>
          THEN [pending |-> <<>>, started |-> st, last_sent |-> last,
                mark |-> FALSE, send |-> FALSE, text_raw |-> <<>>]
          ELSE IF normalized = last
          THEN [pending |-> <<>>, started |-> st, last_sent |-> last,
                mark |-> FALSE, send |-> FALSE, text_raw |-> <<>>]
          ELSE [pending |-> <<>>, started |-> TRUE, last_sent |-> normalized,
                mark |-> ~st, send |-> TRUE, text_raw |-> raw]

\* mutant: pending.clear() comes after the two early returns of lines 233-236
FlushPendingClearsLate(pend, st, last, frc) ==
  IF pend = <<>>
  THEN [pending |-> pend, started |-> st, last_sent |-> last,
        mark |-> FALSE, send |-> FALSE, text_raw |-> <<>>]
  ELSE LET raw == Join(pend)
           normalized == Strip(raw)
       IN IF normalized = <<>>
          THEN [pending |-> pend, started |-> st, last_sent |-> last,
                mark |-> FALSE, send |-> FALSE, text_raw |-> <<>>]
          ELSE IF ~frc /\ normalized = last
          THEN [pending |-> pend, started |-> st, last_sent |-> last,
                mark |-> FALSE, send |-> FALSE, text_raw |-> <<>>]
          ELSE [pending |-> <<>>, started |-> TRUE, last_sent |-> normalized,
                mark |-> ~st, send |-> TRUE, text_raw |-> raw]

\* mutant: self._mark_started() is called on every accepted flush
FlushPendingMarksEveryTime(pend, st, last, frc) ==
  IF pend = <<>>
  THEN [pending |-> pend, started |-> st, last_sent |-> last,
        mark |-> FALSE, send |-> FALSE, text_raw |-> <<>>]
  ELSE LET raw == Join(pend)
           normalized == Strip(raw)
       IN IF normalized = <<>>
          THEN [pending |-> <<>>, started |-> st, last_sent |-> last,
                mark |-> FALSE, send |-> FALSE, text_raw |-> <<>>]
          ELSE IF ~frc /\ normalized = last
          THEN [pending |-> <<>>, started |-> st, last_sent |-> last,
                mark |-> FALSE, send |-> FALSE, text_raw |-> <<>>]
          ELSE [pending |-> <<>>, started |-> TRUE, last_sent |-> normalized,
                mark |-> TRUE, send |-> TRUE, text_raw |-> raw]

\* lines 226-240: _flush_pending up to its first send. `send` tells whether the
\* text and flush frames follow, `mark` whether self._mark_started() is called.
FlushPending(pend, st, last, frc) ==
  IF pend = <<>>
  THEN [pending |-> pend, started |-> st, last_sent |-> last,
        mark |-> FALSE, send |-> FALSE, text_raw |-> <<>>]
  ELSE LET raw == Join(pend)
           normalized == Strip(raw)
       IN IF normalized = <<>>
          THEN [pending |-> <<>>, started |-> st, last_sent |-> last,
                mark |-> FALSE, send |-> FALSE, text_raw |-> <<>>]
          ELSE IF ~frc /\ normalized = last
          THEN [pending |-> <<>>, started |-> st, last_sent |-> last,
                mark |-> FALSE, send |-> FALSE, text_raw |-> <<>>]
          ELSE [pending |-> <<>>, started |-> TRUE, last_sent |-> normalized,
                mark |-> ~st, send |-> TRUE, text_raw |-> raw]

StreamInit ==
  /\ opc = "init"
  /\ exc = NoExc
  /\ sent = <<>>
  /\ received = <<>>
  /\ inLog = <<>>
  /\ closed = FALSE
  /\ stask = "none"
  /\ sexc = NoExc
  /\ rtask = "none"
  /\ scancel = FALSE
  /\ rcancel = FALSE
  /\ gfut = "none"
  /\ gexc = NoExc
  /\ mustCancel = FALSE
  /\ spc = "next"
  /\ pending = <<>>
  /\ started = FALSE
  /\ last_sent = <<>>
  /\ force = FALSE
  /\ text_raw = <<>>
  /\ nMarked = 0
  /\ nAccepted = 0

\* mutant: the gather future completes as soon as one child is done
GatherFirstCompleted(status, e, otherStatus) ==
  IF gfut /= "pending" THEN gfut' = gfut /\ gexc' = gexc
  ELSE IF status = "cancelled" THEN gfut' = "done" /\ gexc' = Cancelled
  ELSE IF status = "failed" THEN gfut' = "done" /\ gexc' = e
  ELSE gfut' = "done" /\ gexc' = NoExc

\* mutant: a failing child replaces the outcome of a gather that is already complete
GatherLastFailureWins(status, e, otherStatus) ==
  IF status = "failed" THEN gfut' = "done" /\ gexc' = e
  ELSE IF gfut /= "pending" THEN gfut' = gfut /\ gexc' = gexc
  ELSE IF status = "cancelled" THEN gfut' = "done" /\ gexc' = Cancelled
  ELSE IF otherStatus = "done" THEN gfut' = "done" /\ gexc' = NoExc
  ELSE gfut' = gfut /\ gexc' = gexc

\* asyncio.gather's _done_callback (return_exceptions=False): the first child
\* to fail or to be cancelled completes the gather future with that exception;
\* otherwise it completes once both children are done.
GatherOnChild(status, e, otherStatus) ==
  IF gfut /= "pending" THEN gfut' = gfut /\ gexc' = gexc
  ELSE IF status = "cancelled" THEN gfut' = "done" /\ gexc' = Cancelled
  ELSE IF status = "failed" THEN gfut' = "done" /\ gexc' = e
  ELSE IF otherStatus = "done" THEN gfut' = "done" /\ gexc' = NoExc
  ELSE gfut' = gfut /\ gexc' = gexc

\* what the session has taken from outside so far: items of the input channel,
\* inbound frames, cancellations
Events == Len(inLog) + Len(received) + nCancel

SenderRuns == mode = "stream" /\ stask = "pending" /\ ~scancel
ReceiverRuns == mode = "stream" /\ rtask = "pending" /\ ~rcancel

\* _send_loop returns (line 256 with started false, or after the stop frame)
SenderEnds ==
  /\ stask' = "done"
  /\ sexc' = NoExc
  /\ spc' = "end"
  /\ GatherOnChild("done", NoExc, rtask)

\* _send_loop raises e (line 261-262 re-raises)
SenderFails(e) ==
  /\ stask' = "failed"
  /\ sexc' = Exc(e, "none")
  /\ spc' = "end"
  /\ GatherOnChild("failed", Exc(e, "none"), rtask)

\* line 247, 252: a text fragment arrives on self._input_ch
SenderFragment ==
  /\ SenderRuns /\ spc = "next" /\ ~closed
  /\ Len(inLog) < MaxInput /\ Events < MaxEvents
  /\ \E f \in Fragments :
       /\ inLog' = Append(inLog, TextItem(f))
       /\ pending' = Append(pending, f)
  /\ UNCHANGED <<sharedVars, chunkedVars, opc, exc, sent, received, closed, stask, sexc,
                 rtask, scancel, rcancel, gfut, gexc, mustCancel, spc, started,
                 last_sent, force, text_raw, nMarked, nAccepted>>

\* the state _flush_pending(frc) leaves when it reaches line 241 or returns early
ApplyFlush(r, frc) ==
  /\ pending' = r.pending
  /\ started' = r.started
  /\ last_sent' = r.last_sent
  /\ nMarked' = nMarked + (IF r.mark THEN 1 ELSE 0)
  /\ nAccepted' = nAccepted + (IF r.send THEN 1 ELSE 0)
  /\ text_raw' = r.text_raw
  /\ force' = frc

\* lines 248-250: a flush marker arrives; _flush_pending() runs to its first await
SenderFlushMarker ==
  /\ SenderRuns /\ spc = "next" /\ ~closed
  /\ Len(inLog) < MaxInput /\ Events < MaxEvents
  /\ inLog' = Append(inLog, FlushSentinel)
  /\ LET r == FlushPending(pending, started, last_sent, FALSE) IN
       /\ ApplyFlush(r, FALSE)
       /\ spc' = IF r.send THEN "send_text" ELSE "next"
  /\ UNCHANGED <<sharedVars, chunkedVars, opc, exc, sent, received, closed, stask, sexc,
                 rtask, scancel, rcancel, gfut, gexc, mustCancel>>

\* mutant: the flush at the end of the input is not forced
SenderCloseNotForced ==
  /\ SenderRuns /\ spc = "next" /\ ~closed
  /\ closed' = TRUE
  /\ LET r == FlushPending(pending, started, last_sent, FALSE) IN
       /\ ApplyFlush(r, TRUE)
       /\ IF r.send
          THEN spc' = "send_text" /\ UNCHANGED <<stask, sexc, gfut, gexc>>
          ELSE IF r.started
          THEN spc' = "send_stop" /\ UNCHANGED <<stask, sexc, gfut, gexc>>
          ELSE SenderEnds
  /\ UNCHANGED <<sharedVars, chunkedVars, opc, exc, sent, received, inLog,
                 rtask, scancel, rcancel, mustCancel>>

\* mutant: the stop frame is sent whether or not the session started
SenderCloseAlwaysStops ==
  /\ SenderRuns /\ spc = "next" /\ ~closed
  /\ closed' = TRUE
  /\ LET r == FlushPending(pending, started, last_sent, TRUE) IN
       /\ ApplyFlush(r, TRUE)
       /\ spc' = IF r.send THEN "send_text" ELSE "send_stop"
  /\ UNCHANGED <<sharedVars, chunkedVars, opc, exc, sent, received, inLog,
                 stask, sexc, gfut, gexc, rtask, scancel, rcancel, mustCancel>>

\* lines 247, 254-256: the input channel is exhausted; _flush_pending(force=True)
\* runs to its first await, or returns and line 256 is evaluated
SenderClose ==
  /\ SenderRuns /\ spc = "next" /\ ~closed
  /\ closed' = TRUE
  /\ LET r == FlushPending(pending, started, last_sent, TRUE) IN
       /\ ApplyFlush(r, TRUE)
       /\ IF r.send
          THEN spc' = "send_text" /\ UNCHANGED <<stask, sexc, gfut, gexc>>
          ELSE IF r.started
          THEN spc' = "send_stop" /\ UNCHANGED <<stask, sexc, gfut, gexc>>
          ELSE SenderEnds
  /\ UNCHANGED <<sharedVars, chunkedVars, opc, exc, sent, received, inLog,
                 rtask, scancel, rcancel, mustCancel>>

\* lines 241-243: the text frame is sent
SendText ==
  /\ SenderRuns /\ spc = "send_text"
  /\ sent' = Append(sent, Frame("text", text_raw))
  /\ spc' = "send_flush"
  /\ UNCHANGED <<sharedVars, chunkedVars, opc, exc, received, inLog, closed, stask, sexc,
                 rtask, scancel, rcancel, gfut, gexc, mustCancel, pending, started,
                 last_sent, force, text_raw, nMarked, nAccepted>>

\* mutant: the flush frame of line 244 is left out
SendFlushOmitted ==
  /\ SenderRuns /\ spc = "send_flush"
  /\ sent' = sent
  /\ spc' = IF ~force THEN "next" ELSE IF started THEN "send_stop" ELSE "end"
  /\ IF force /\ ~started
     THEN stask' = "done" /\ sexc' = NoExc /\ GatherOnChild("done", NoExc, rtask)
     ELSE UNCHANGED <<stask, sexc, gfut, gexc>>
  /\ UNCHANGED <<sharedVars, chunkedVars, opc, exc, received, inLog, closed,
                 rtask, scancel, rcancel, mustCancel, pending, started,
                 last_sent, force, text_raw, nMarked, nAccepted>>

\* line 244: the flush frame is sent; back to the loop, or on to line 256
SendFlush ==
  /\ SenderRuns /\ spc = "send_flush"
  /\ sent' = Append(sent, FlushFrame)
  /\ spc' = IF ~force THEN "next" ELSE IF started THEN "send_stop" ELSE "end"
  /\ IF force /\ ~started
     THEN stask' = "done" /\ sexc' = NoExc /\ GatherOnChild("done", NoExc, rtask)
     ELSE UNCHANGED <<stask, sexc, gfut, gexc>>
  /\ UNCHANGED <<sharedVars, chunkedVars, opc, exc, received, inLog, closed,
                 rtask, scancel, rcancel, mustCancel, pending, started,
                 last_sent, force, text_raw, nMarked, nAccepted>>

\* lines 241-244: ws.send_bytes raises on the text or the flush frame
SendTextOrFlushFails ==
  /\ SenderRuns /\ spc \in {"send_text", "send_flush"}
  /\ \E e \in SendErrors : SenderFails(e)
  /\ UNCHANGED <<sharedVars, chunkedVars, opc, exc, sent, received, inLog, closed,
                 rtask, scancel, rcancel, mustCancel, pending, started,
                 last_sent, force, text_raw, nMarked, nAccepted>>

\* lines 256-258: the stop frame is sent and _send_loop returns
SendStop ==
  /\ SenderRuns /\ spc = "send_stop"
  /\ sent' = Append(sent, StopFrame)
  /\ SenderEnds
  /\ UNCHANGED <<sharedVars, chunkedVars, opc, exc, received, inLog, closed,
                 rtask, scancel, rcancel, mustCancel, pending, started,
                 last_sent, force, text_raw, nMarked, nAccepted>>

\* mutant: an error of the stop send is never swallowed
SendStopFailsNoSwallow ==
  /\ SenderRuns /\ spc = "send_stop"
  /\ \E e \in SendErrors : SenderFails(e)
  /\ UNCHANGED <<sharedVars, chunkedVars, opc, exc, sent, received, inLog, closed,
                 rtask, scancel, rcancel, mustCancel, pending, started,
                 last_sent, force, text_raw, nMarked, nAccepted>>

\* lines 257-260: the send of stop raises; LocalProtocolError is swallowed
SendStopFails ==
  /\ SenderRuns /\ spc = "send_stop"
  /\ \E e \in SendErrors :
       IF e = "LocalProtocolError" THEN SenderEnds ELSE SenderFails(e)
  /\ UNCHANGED <<sharedVars, chunkedVars, opc, exc, sent, received, inLog, closed,
                 rtask, scancel, rcancel, mustCancel, pending, started,
                 last_sent, force, text_raw, nMarked, nAccepted>>

\* CancelledError is thrown into _send_loop at the await it is suspended in
SenderCancelled ==
  /\ mode = "stream" /\ stask = "pending" /\ scancel
  /\ stask' = "cancelled"
  /\ sexc' = Cancelled
  /\ GatherOnChild("cancelled", Cancelled, rtask)
  /\ UNCHANGED <<sharedVars, chunkedVars, opc, exc, sent, received, inLog, closed,
                 rtask, scancel, rcancel, mustCancel, spc, pending, started,
                 last_sent, force, text_raw, nMarked, nAccepted>>

recvUnchanged == <<chunkedVars, opc, exc, sent, inLog, closed, stask, sexc, scancel,
                   rcancel, mustCancel, spc, pending, started, last_sent, force,
                   text_raw, nMarked, nAccepted, mode, result, cause, nCancel>>

\* _recv_loop returns (line 277)
ReceiverEnds ==
  /\ rtask' = "done"
  /\ GatherOnChild("done", NoExc, stask)

\* _recv_loop raises e
ReceiverFails(e) ==
  /\ rtask' = "failed"
  /\ GatherOnChild("failed", e, stask)

\* mutant: the payload is pushed without the test of line 272
RecvAudioPushesEmpty ==
  /\ ReceiverRuns /\ Len(received) < MaxRecv /\ Events < MaxEvents
  /\ \E c \in AudioPayloads :
       /\ received' = Append(received, InFrame("audio", c))
       /\ sink' = Append(sink, SinkCall("push", c))
  /\ UNCHANGED <<recvUnchanged, rtask, gfut, gexc>>

\* lines 267-273: an audio frame; a non-empty payload is pushed
RecvAudio ==
  /\ ReceiverRuns /\ Len(received) < MaxRecv /\ Events < MaxEvents
  /\ \E c \in AudioPayloads :
       /\ received' = Append(received, InFrame("audio", c))
       /\ sink' = IF c /= "" THEN Append(sink, SinkCall("push", c)) ELSE sink
  /\ UNCHANGED <<recvUnchanged, rtask, gfut, gexc>>

\* mutant: the reason of the finish frame is not looked at
RecvFinishIgnoresReason ==
  /\ ReceiverRuns
  /\ \E reason \in {"stop", "error"} :
       /\ received' = Append(received, InFrame("finish", reason))
       /\ ReceiverEnds
  /\ UNCHANGED <<recvUnchanged, sink>>

\* lines 274-277: a finish frame; reason "error" raises, any other reason breaks
RecvFinish ==
  /\ ReceiverRuns
  /\ \E reason \in {"stop", "error"} :
       /\ received' = Append(received, InFrame("finish", reason))
       /\ IF reason = "error"
          THEN ReceiverFails(Exc("APIConnectionError", "none"))
          ELSE ReceiverEnds
  /\ UNCHANGED <<recvUnchanged, sink>>

\* lines 269-274: a map whose event is neither audio nor finish: the loop goes on
RecvOtherEvent ==
  /\ ReceiverRuns /\ Len(received) < MaxRecv /\ Events < MaxEvents
  /\ received' = Append(received, InFrame("other", ""))
  /\ UNCHANGED <<recvUnchanged, sink, rtask, gfut, gexc>>

\* lines 267, 278-279: receive_bytes raises WebSocketDisconnect
RecvDisconnect ==
  /\ ReceiverRuns
  /\ ReceiverFails(Exc("APIConnectionError", "WebSocketDisconnect"))
  /\ UNCHANGED <<recvUnchanged, sink, received>>

\* line 267: receive_bytes raises WebSocketNetworkError, which line 278 lets through
RecvNetworkError ==
  /\ ReceiverRuns
  /\ ReceiverFails(Exc("WebSocketNetworkError", "none"))
  /\ UNCHANGED <<recvUnchanged, sink, received>>

\* lines 268-269: a frame ormsgpack cannot decode (MsgpackDecodeError), or one
\* that decodes to something without .get (AttributeError)
RecvMalformed ==
  /\ ReceiverRuns
  /\ \E k \in {"undecodable", "notamap"} :
       /\ received' = Append(received, InFrame(k, ""))
       /\ ReceiverFails(Exc(IF k = "undecodable" THEN "MsgpackDecodeError"
                                                   ELSE "AttributeError", "none"))
  /\ UNCHANGED <<recvUnchanged, sink>>

\* CancelledError is thrown into _recv_loop at receive_bytes
ReceiverCancelled ==
  /\ mode = "stream" /\ rtask = "pending" /\ rcancel
  /\ rtask' = "cancelled"
  /\ GatherOnChild("cancelled", Cancelled, stask)
  /\ UNCHANGED <<recvUnchanged, sink, received>>

\* ---- _run itself
outerUnchanged == <<chunkedVars, mode, received, inLog, closed, spc, pending,
                    started, last_sent, force, text_raw, nMarked, nAccepted>>

\* lines 189-219: the emitter is initialized and the segment started
StreamStart ==
  /\ mode = "stream" /\ opc = "init"
  /\ sink' = <<SinkCall("initialize", "stream"), SinkCall("start_segment", "")>>
  /\ opc' = "connect"
  /\ UNCHANGED <<outerUnchanged, exc, sent, stask, sexc, rtask, scancel, rcancel, gfut,
                 gexc, mustCancel, result, cause, nCancel>>

\* lines 282-287: the websocket is connected
Connect ==
  /\ mode = "stream" /\ opc = "connect"
  /\ opc' = "send_start"
  /\ UNCHANGED <<outerUnchanged, sink, exc, sent, stask, sexc, rtask, scancel, rcancel,
                 gfut, gexc, mustCancel, result, cause, nCancel>>

\* lines 282-287: connecting fails
ConnectFails ==
  /\ mode = "stream" /\ opc = "connect"
  /\ \E e \in ConnectErrors : exc' = Exc(e, "none")
  /\ opc' = "close"
  /\ UNCHANGED <<outerUnchanged, sink, sent, stask, sexc, rtask, scancel, rcancel,
                 gfut, gexc, mustCancel, result, cause, nCancel>>

\* lines 288-296: the start frame is sent, both tasks are created and gathered
SendStart ==
  /\ mode = "stream" /\ opc = "send_start"
  /\ sent' = Append(sent, StartFrame)
  /\ stask' = "pending"
  /\ sexc' = NoExc
  /\ rtask' = "pending"
  /\ gfut' = "pending"
  /\ opc' = "gather"
  /\ UNCHANGED <<outerUnchanged, sink, exc, scancel, rcancel, gexc, mustCancel,
                 result, cause, nCancel>>

\* lines 288-290: the send of the start frame raises
SendStartFails ==
  /\ mode = "stream" /\ opc = "send_start"
  /\ \E e \in SendErrors : exc' = Exc(e, "none")
  /\ opc' = "close"
  /\ UNCHANGED <<outerUnchanged, sink, sent, stask, sexc, rtask, scancel, rcancel,
                 gfut, gexc, mustCancel, result, cause, nCancel>>

\* lines 297-302, from send_task on: the first task of (send_task, recv_task)
\* not yet done is cancelled and awaited; with none left the `async with` exits
FinallyFrom(sDone, rDone) ==
  IF ~sDone
  THEN scancel' = TRUE /\ rcancel' = rcancel /\ opc' = "await_send"
  ELSE IF ~rDone
  THEN rcancel' = TRUE /\ scancel' = scancel /\ opc' = "await_recv"
  ELSE UNCHANGED <<scancel, rcancel>> /\ opc' = "close"

\* lines 295-299: gather completes; its exception, or the CancelledError of a
\* cancellation that found gather already complete, is raised at line 296
GatherResumes ==
  /\ mode = "stream" /\ opc = "gather" /\ gfut = "done"
  /\ exc' = IF mustCancel THEN Cancelled ELSE gexc
  /\ mustCancel' = FALSE
  /\ FinallyFrom(stask /= "pending", rtask /= "pending")
  /\ UNCHANGED <<outerUnchanged, sink, sent, stask, sexc, rtask, gfut, gexc,
                 result, cause, nCancel>>

\* lines 301-302: the awaited send_task has ended; on to recv_task
AwaitSendTask ==
  /\ mode = "stream" /\ opc = "await_send" /\ stask /= "pending"
  /\ FinallyFrom(TRUE, rtask /= "pending")
  /\ UNCHANGED <<outerUnchanged, sink, exc, sent, stask, sexc, rtask, gfut, gexc,
                 mustCancel, result, cause, nCancel>>

\* lines 301-302: the awaited recv_task has ended
AwaitRecvTask ==
  /\ mode = "stream" /\ opc = "await_recv" /\ rtask /= "pending"
  /\ opc' = "close"
  /\ UNCHANGED <<outerUnchanged, sink, exc, sent, stask, sexc, rtask, scancel, rcancel,
                 gfut, gexc, mustCancel, result, cause, nCancel>>

\* lines 303-310: the exception classes that are re-raised as APIConnectionError
Wrapped == {"HTTPError", "TimeoutError", "WebSocketNetworkError",
            "WebSocketUpgradeError", "LocalProtocolError"}

\* lines 303-310
Raised(e) ==
  IF e.type \in Wrapped THEN Exc("APIConnectionError", e.type) ELSE e

\* mutant: end_input() follows the try block instead of sitting in its finally
CloseAndEndNoFinally ==
  /\ mode = "stream" /\ opc = "close"
  /\ result' = IF exc = NoExc THEN "ok" ELSE Raised(exc).type
  /\ cause' = Raised(exc).cause
  /\ sink' = IF exc = NoExc THEN Append(sink, SinkCall("end_input", "")) ELSE sink
  /\ opc' = "returned"
  /\ UNCHANGED <<outerUnchanged, exc, sent, stask, sexc, rtask, scancel, rcancel, gfut,
                 gexc, mustCancel, nCancel>>

\* lines 282-287 exit, 303-312: the connection and the client are closed, the
\* exception is mapped, end_input() is called and _run ends
CloseAndEnd ==
  /\ mode = "stream" /\ opc = "close"
  /\ result' = IF exc = NoExc THEN "ok" ELSE Raised(exc).type
  /\ cause' = Raised(exc).cause
  /\ sink' = Append(sink, SinkCall("end_input", ""))
  /\ opc' = "returned"
  /\ UNCHANGED <<outerUnchanged, exc, sent, stask, sexc, rtask, scancel, rcancel, gfut,
                 gexc, mustCancel, nCancel>>

\* The task running _run is cancelled while it is suspended.
\*  - connecting, sending start, closing: CancelledError is raised there;
\*  - in gather: gather cancels both children, or, already complete, the
\*    CancelledError replaces its outcome at wake-up;
\*  - awaiting a task in the finally block: the cancellation goes to the awaited
\*    task (already cancelled) and contextlib.suppress swallows it.
CancelOp ==
  /\ mode = "stream" /\ nCancel < MaxCancel /\ Events < MaxEvents
  /\ opc \in {"connect", "send_start", "gather", "await_send", "await_recv", "close"}
  /\ nCancel' = nCancel + 1
  /\ IF opc \in {"connect", "send_start", "close"}
     THEN /\ exc' = Cancelled
          /\ opc' = "close"
          /\ UNCHANGED <<scancel, rcancel, mustCancel>>
     ELSE IF opc = "gather"
     THEN /\ IF gfut = "done"
             THEN mustCancel' = TRUE /\ UNCHANGED <<scancel, rcancel>>
             ELSE /\ scancel' = (scancel \/ stask = "pending")
                  /\ rcancel' = (rcancel \/ rtask = "pending")
                  /\ mustCancel' = mustCancel
          /\ UNCHANGED <<exc, opc>>
     ELSE UNCHANGED <<exc, opc, scancel, rcancel, mustCancel>>
  /\ UNCHANGED <<outerUnchanged, sink, sent, stask, sexc, rtask, gfut, gexc, result, cause>>

StreamStep ==
  \/ StreamStart
  \/ Connect
  \/ ConnectFails
  \/ SendStart
  \/ SendStartFails
  \/ SenderFragment
  \/ SenderFlushMarker
  \/ SenderClose
  \/ SendText
  \/ SendFlush
  \/ SendTextOrFlushFails
  \/ SendStop
  \/ SendStopFails
  \/ SenderCancelled
  \/ RecvAudio
  \/ RecvFinish
  \/ RecvOtherEvent
  \/ RecvDisconnect
  \/ RecvNetworkError
  \/ RecvMalformed
  \/ ReceiverCancelled
  \/ GatherResumes
  \/ AwaitSendTask
  \/ AwaitRecvTask
  \/ CloseAndEnd
  \/ CancelOp

InitStream == mode = "stream" /\ SharedInit /\ ChunkedInitIdle /\ StreamInit

StreamNext == StreamStep

SpecStream == InitStream /\ [][StreamNext]_vars

InitChunked == mode = "chunked" /\ SharedInit /\ ChunkedInit /\ StreamInit

ChunkedNext == ChunkedStep /\ UNCHANGED streamVars

SpecChunked == InitChunked /\ [][ChunkedNext]_vars

\* either operation
Init == InitChunked \/ InitStream

Next == ChunkedNext \/ StreamNext

Spec == Init /\ [][Next]_vars

\* ------------------------------------------------------------ helpers
IsPrefix(s, t) == Len(s) <= Len(t) /\ s = SubSeq(t, 1, Len(s))

Last(s) == s[Len(s)]

Front(s) == SubSeq(s, 1, Len(s) - 1)

PushCalls(cs) == [i \in 1..Len(cs) |-> SinkCall("push", cs[i])]

IsText(f) == f.event = "text"

TextFrames(log) == SelectSeq(log, IsText)

RECURSIVE AudioBeforeFinish(_)
\* the non-empty audio payloads of an inbound log up to its first finish frame
AudioBeforeFinish(log) ==
  IF log = <<>> \/ Head(log).event = "finish" THEN <<>>
  ELSE IF Head(log).event = "audio" /\ Head(log).data /= ""
       THEN <<Head(log).data>> \o AudioBeforeFinish(Tail(log))
       ELSE AudioBeforeFinish(Tail(log))

RECURSIVE Trailing(_)
\* the fragments of an input log that follow its last flush marker
Trailing(log) ==
  IF log = <<>> \/ Last(log).kind = "flush" THEN <<>>
  ELSE Append(Trailing(Front(log)), Last(log).text)

EndInputCalls == CountCalls(sink, "end_input")

\* ------------------------------------------------------------ claims

C2_OrderPreserved ==
  /\ mode = "chunked" =>
       /\ IsPrefix(Pushes(sink), gen)
       /\ Len(Pushes(sink)) <= wi
       /\ (cpc = "done" /\ result /= "CancelledError") => Pushes(sink) = gen
  /\ mode = "stream" => Pushes(sink) = AudioBeforeFinish(received)

\* C2 witness: an empty payload, then a chunk, then finish: one push
C2_Witness ==
  /\ mode = "stream" /\ opc = "returned"
  /\ received = <<InFrame("audio", ""), InFrame("audio", "b2"), InFrame("finish", "stop")>>
  /\ Pushes(sink) = <<"b2">>

\* C3: batched, the generator ends without raising and the operation is not
\* cancelled: the sink has received initialize, one push per chunk in order,
\* flush, and the operation returned without error. flush() is called at most
\* once, and only with the sentinel dequeued and the worker finished.
C3_BatchedHappyPath ==
  mode = "chunked" =>
    /\ (cpc = "done" /\ ~genRaises /\ result /= "CancelledError") =>
         /\ sink = <<SinkCall("initialize", "chunked")>> \o PushCalls(gen)
                     \o <<SinkCall("flush", "")>>
         /\ result = "ok"
    /\ CountCalls(sink, "flush") <= 1
    /\ CountCalls(sink, "flush") = 1 =>
         /\ Last(sink).call = "flush"
         /\ cpc = "done" /\ wpc = "done"
         /\ ready = <<>> /\ courier_queue = <<>>

\* C3 witness: three chunks delivered and flushed
C3_Witness ==
  /\ mode = "chunked" /\ cpc = "done" /\ result = "ok"
  /\ gen = <<"b1", "b2", "b1">>
  /\ Len(sink) = 5

\* C4: batched, the generator raises after its chunks: flush() is never called,
\* the pushes are a prefix of the yielded chunks, and when the operation has
\* ended without being cancelled the sink holds initialize and every chunk
\* yielded before the failure, and the operation raised APIConnectionError
\* with the backend's error as its cause.
C4_BatchedFailure ==
  (mode = "chunked" /\ genRaises) =>
    /\ CountCalls(sink, "flush") = 0
    /\ IsPrefix(Pushes(sink), gen)
    /\ result /= "ok"
    /\ (cpc = "done" /\ result /= "CancelledError") =>
         /\ result = "APIConnectionError"
         /\ cause = "BackendError"
         /\ sink = <<SinkCall("initialize", "chunked")>> \o PushCalls(gen)

\* C4 witness: one chunk, then the failure
C4_Witness ==
  /\ mode = "chunked" /\ genRaises /\ gen = <<"b1">>
  /\ cpc = "done" /\ result = "APIConnectionError"
  /\ Pushes(sink) = <<"b1">>

\* the step takes a flush marker from the input channel
TakesFlushMarker == inLog' = Append(inLog, FlushSentinel)

\* the flush that just ran returned without reaching its sends and left the
\* sender's bookkeeping alone
FlushSentNothing ==
  /\ spc' = "next"
  /\ sent' = sent
  /\ last_sent' = last_sent
  /\ started' = started
  /\ nMarked' = nMarked
  /\ nAccepted' = nAccepted

\* Scenario C: append "a", flush, append "a", flush (then close)
ScenarioC == <<TextItem(<<"a">>), FlushSentinel, TextItem(<<"a">>), FlushSentinel>>

\* C5: a non-forced flush whose pending text, trimmed, equals last_sent reaches
\* no send (neither the text nor the flush frame is sent); and after
\* append "a", flush, append "a", flush, close the session has sent at most one
\* text frame, exactly the one with payload "a" once the sender has ended.
C5_Dedup ==
  /\ [][(TakesFlushMarker /\ pending /= <<>> /\ Strip(Join(pending)) = last_sent)
          => FlushSentNothing]_vars
  /\ [](inLog = ScenarioC =>
          /\ Len(TextFrames(sent)) <= 1
          /\ (closed /\ stask = "done") =>
               TextFrames(sent) = <<Frame("text", <<"a">>)>>)

\* C5 witness: scenario C ran to the end of the sender loop
C5_Witness ==
  /\ inLog = ScenarioC /\ closed /\ stask = "done"
  /\ sent = <<StartFrame, Frame("text", <<"a">>), FlushFrame, StopFrame>>

\* C6: a flush marker that directly follows a flush marker sends nothing and
\* changes neither last_sent nor started: the content flushed by the first
\* marker is sent at most once.
C6_FlushIdempotent ==
  [][(TakesFlushMarker /\ inLog /= <<>> /\ Last(inLog) = FlushSentinel)
       => FlushSentNothing]_vars

\* C6 witness: text, flush (accepted and sent), flush again
C6_Witness ==
  /\ inLog = <<TextItem(<<" ">>), TextItem(<<"a">>), FlushSentinel, FlushSentinel>>
  /\ sent = <<StartFrame, Frame("text", <<" ", "a">>), FlushFrame>>
  /\ spc = "next"

\* the sender is past the forced flush of line 254
PastForcedFlush == closed /\ (spc = "send_stop" \/ stask = "done")

\* the last text frame sent carries txt, the flush frame follows it directly,
\* and nothing but the stop frame comes after
SentLastAsPair(txt) ==
  \E i \in 1..Len(sent) :
    /\ sent[i] = Frame("text", txt)
    /\ i < Len(sent) /\ sent[i + 1] = FlushFrame
    /\ \A j \in (i + 2)..Len(sent) : sent[j] = StopFrame

\* C7 as stated: whatever was appended after the last flush marker has been sent
\* as a text frame followed by a flush frame once the sender is past the close
C7_TrailingAlwaysSent ==
  (PastForcedFlush /\ Trailing(inLog) /= <<>>) =>
    SentLastAsPair(Join(Trailing(inLog)))

\* C7 amended: the same for trailing text that is not blank (not empty after
\* trimming): once the sender is past the forced flush, that text, untrimmed,
\* is the last text frame sent, directly followed by a flush frame.
C7_TrailingNonBlankSent ==
  (PastForcedFlush /\ Strip(Join(Trailing(inLog))) /= <<>>) =>
    SentLastAsPair(Join(Trailing(inLog)))

\* C7 witness: " " and "a" appended, no flush marker, channel closed
C7_Witness ==
  /\ inLog = <<TextItem(<<" ">>), TextItem(<<"a">>)>> /\ closed /\ stask = "done"
  /\ sent = <<StartFrame, Frame("text", <<" ", "a">>), FlushFrame, StopFrame>>

\* C8: self._mark_started() is called at most once in a session; it has been
\* called exactly when a flush has been accepted (so never while every flush
\* was empty, blank or dropped), the call comes with the first accepted flush
\* and no text frame is sent before it.
C8_StartedOnce ==
  /\ nMarked <= 1
  /\ nMarked = (IF nAccepted > 0 THEN 1 ELSE 0)
  /\ started = (nMarked = 1)
  /\ nMarked = 0 => TextFrames(sent) = <<>> /\ spc \notin {"send_text", "send_flush"}
  /\ Len(TextFrames(sent)) <= nAccepted

\* C8 witness: two accepted flushes, one call
C8_Witness ==
  /\ nAccepted = 2 /\ nMarked = 1 /\ stask = "done"
  /\ Len(TextFrames(sent)) = 2

\* the session of scenario D: nothing appended, no flush marker, channel closed
EmptySession == mode = "stream" /\ closed /\ inLog = <<>>

\* the steps _run and its two loops take by themselves, without a frame from
\* the backend, an item from the caller or a cancellation
ProgramStep ==
  \/ SendText \/ SendFlush \/ SendStop
  \/ SenderCancelled \/ ReceiverCancelled
  \/ GatherResumes \/ AwaitSendTask \/ AwaitRecvTask \/ CloseAndEnd

\* C9 as stated: in the empty session only the start frame is sent, started
\* never fires, and the session goes on to end_input() by itself
C9_EmptySessionEnds ==
  EmptySession =>
    /\ sent = <<StartFrame>>
    /\ nMarked = 0
    /\ (EndInputCalls = 1 \/ ENABLED ProgramStep)

\* C9 amended: in the empty session only the start frame is sent, started never
\* fires and the sender loop has ended; end_input() is called exactly once when
\* the session ends, and the session goes on to its end by itself as soon as
\* the receiver loop has ended (finish frame, disconnect, receive error) or the
\* operation was cancelled. While the backend stays silent the session waits.
C9_EmptySessionSafe ==
  EmptySession =>
    /\ sent = <<StartFrame>>
    /\ nMarked = 0
    /\ stask = "done"
    /\ EndInputCalls = (IF opc = "returned" THEN 1 ELSE 0)
    /\ (rtask /= "pending" \/ rcancel) => (EndInputCalls = 1 \/ ENABLED ProgramStep)

\* C9 witness: the empty session ended after the backend's finish frame
C9_Witness ==
  /\ EmptySession /\ opc = "returned" /\ result = "ok"
  /\ received = <<InFrame("finish", "stop")>>
  /\ sink = <<SinkCall("initialize", "stream"), SinkCall("start_segment", ""),
              SinkCall("end_input", "")>>

\* the receiver loop received finish with this reason
GotFinish(reason) == received /= <<>> /\ Last(received) = InFrame("finish", reason)

\* C10: after a finish frame with reason "error" the receiver loop has failed,
\* no frame is received (and so none pushed) after it, and when _run has ended
\* end_input() was called and the operation raised APIConnectionError, unless
\* the operation itself was cancelled, which raises CancelledError. After a
\* finish frame with another reason the receiver loop has ended without error.
C10_ErrorFinish ==
  mode = "stream" =>
    /\ \A i \in 1..(Len(received) - 1) : received[i].event /= "finish"
    /\ GotFinish("error") =>
         /\ rtask = "failed"
         /\ Pushes(sink) = AudioBeforeFinish(received)
         /\ result /= "ok"
         /\ opc = "returned" =>
              /\ EndInputCalls = 1
              /\ result = "APIConnectionError" \/ (result = "CancelledError" /\ nCancel > 0)
    /\ GotFinish("stop") => rtask = "done"

\* C10 witness: audio, then finish(error): the operation raised APIConnectionError
C10_Witness ==
  /\ GotFinish("error") /\ opc = "returned" /\ result = "APIConnectionError"
  /\ Pushes(sink) = <<"b1">> /\ EndInputCalls = 1 /\ nCancel = 0

\* a terminal marker of the handoff queue: the failure marker or the sentinel
IsTerminal(item) == item.kind \in {"exc", "sentinel"}

Positions(log, kind) == {i \in DOMAIN log : log[i].kind = kind}

\* run_tts has returned and every put it scheduled has run
BridgeOver == mode = "chunked" /\ wpc = "done" /\ ready = <<>>

\* C11 (as stated): in every run of the bridge exactly one terminal marker, the
\* failure marker or the sentinel, is put on the handoff queue, and it is the
\* last item put.
C11_OneTerminalMarker ==
  mode = "chunked" =>
    /\ Cardinality({i \in DOMAIN enqLog : IsTerminal(enqLog[i])}) <= 1
    /\ \A i \in DOMAIN enqLog : IsTerminal(enqLog[i]) => i = Len(enqLog)
    /\ BridgeOver => enqLog /= <<>> /\ IsTerminal(Last(enqLog))

\* C11 amended: in every run of the bridge the sentinel is put exactly once and
\* is the last item put, whether the backend ended or raised; when the backend
\* raises, the failure marker is put as well, once, directly before the
\* sentinel. The items put are the chunks yielded, in order, then the failure
\* marker if the backend raised, then the sentinel.
C11_SentinelOnceAndLast ==
  mode = "chunked" =>
    /\ \A i \in Positions(enqLog, "sentinel") : i = Len(enqLog)
    /\ \A i \in Positions(enqLog, "exc") :
         /\ genRaises
         /\ i = Len(gen) + 1
         /\ i < Len(enqLog) => (i + 1 = Len(enqLog) /\ enqLog[i + 1] = Sentinel)
    /\ BridgeOver =>
         enqLog = [i \in 1..Len(gen) |-> ChunkItem(gen[i])]
                    \o (IF genRaises THEN <<ExcItem>> ELSE <<>>) \o <<Sentinel>>

\* C11 witness: the backend raised after a chunk; the failure marker and then
\* the sentinel were put
C11_Witness ==
  /\ BridgeOver /\ genRaises
  /\ enqLog = <<ChunkItem("b1"), ExcItem, Sentinel>>

\* C12 (as stated): once the batched operation was cancelled while it waited on
\* the handoff queue, no further chunk is pushed and the operation has not
\* returned before the worker has terminated.
C12_CancelAwaitsWorker ==
  (mode = "chunked" /\ result = "CancelledError") =>
    /\ wpc = "done"
    /\ IsPrefix(Pushes(sink), gen)

\* the loops have ended by the time the connection is closed and end_input() called
C13_Drained ==
  (mode = "stream" /\ opc \in {"close", "returned"}) =>
    /\ stask /= "pending" /\ rtask /= "pending"
    /\ opc = "returned" => EndInputCalls = 1

\* a step after the loop's own cancel() call, or after end_input(), neither
\* pushes nor sends
C13_QuietAfterTaskCancel ==
  /\ scancel => sent' = sent
  /\ rcancel => Pushes(sink') = Pushes(sink)
  /\ opc = "returned" => (sink' = sink /\ sent' = sent)

\* a step after the cancellation of the operation was requested neither pushes
\* nor sends
C13_QuietAfterCancelRequest ==
  nCancel > 0 => (Pushes(sink') = Pushes(sink) /\ sent' = sent)

\* C13 (as stated): when the connection is closed and end_input() is called both
\* loops have terminated, a loop still running at the exit having been cancelled
\* and awaited; no push() and no outbound send happens after cancellation was
\* requested or after end_input().
C13_StreamingDrain ==
  /\ []C13_Drained
  /\ [][C13_QuietAfterTaskCancel /\ C13_QuietAfterCancelRequest]_vars

\* C13, the part that holds: the drain, and silence after each loop's own cancel()
C13_DrainAndTaskQuiet == []C13_Drained /\ [][C13_QuietAfterTaskCancel]_vars

\* the inbound frames the claim calls malformed or unexpected
BadFrameEvents == {"undecodable", "notamap", "other"}

\* C14 (as stated): once the receiver loop got a frame that cannot be decoded,
\* is not a map, or carries an event other than audio or finish, the loop has
\* failed rather than gone on, and the operation, unless it was cancelled or the
\* sender loop failed first, ends with APIConnectionError.
C14_MalformedIsConnectionError ==
  (mode = "stream" /\ \E i \in DOMAIN received : received[i].event \in BadFrameEvents) =>
    /\ rtask = "failed"
    /\ (opc = "returned" /\ nCancel = 0 /\ stask /= "failed") =>
         result = "APIConnectionError"

\* the loop failures the claim lists: a send failure, a disconnect, a network
\* error of the receive, a finish frame with reason error
LoopFailures ==
  {Exc(e, "none") : e \in SendErrors}
    \cup {Exc("APIConnectionError", "WebSocketDisconnect"),
          Exc("WebSocketNetworkError", "none"), Exc("APIConnectionError", "none")}

\* the operation ended with the error that completed gather
C15_FirstErrorRaised ==
  (mode = "stream" /\ opc = "returned" /\ gfut = "done" /\ gexc \in LoopFailures) =>
    /\ stask /= "pending" /\ rtask /= "pending"
    /\ result = "APIConnectionError" \/ (result = "CancelledError" /\ nCancel > 0)
    /\ result = "APIConnectionError" => cause = Raised(gexc).cause

\* gather takes the exception of the loop that fails first and keeps it
C15_FirstErrorKept ==
  /\ (gfut = "pending" /\ stask = "pending" /\ stask' = "failed") =>
       (gfut' = "done" /\ gexc' = sexc')
  /\ (gfut = "pending" /\ rtask = "pending" /\ rtask' = "failed") =>
       (gfut' = "done" /\ gexc' /= NoExc /\ gexc' /= Cancelled)
  /\ gfut = "done" => (gfut' = "done" /\ gexc' = gexc)

\* C15: when a loop fails with a send failure, a disconnect, a network error or
\* an error finish, the exception of the loop that failed first completes
\* gather and is never replaced by a later failure of the other loop; the
\* operation ends, both loops over, with one APIConnectionError whose cause is
\* that first failure (with CancelledError if the operation itself was
\* cancelled).
C15_FirstErrorWins == []C15_FirstErrorRaised /\ [][C15_FirstErrorKept]_vars

\* C15 witness: the receiver failed first (disconnect), the sender's send failed
\* afterwards; the caller sees the disconnect
C15_Witness ==
  /\ opc = "returned" /\ nCancel = 0
  /\ rtask = "failed" /\ stask = "failed" /\ sexc = Exc("WebSocketNetworkError", "none")
  /\ gexc = Exc("APIConnectionError", "WebSocketDisconnect")
  /\ result = "APIConnectionError" /\ cause = "WebSocketDisconnect"

RECURSIVE ShapeTail(_)
\* s is a prefix of: zero or more (text, flush) pairs, then at most one stop
ShapeTail(s) ==
  IF s = <<>> THEN TRUE
  ELSE IF IsText(Head(s))
       THEN Len(s) = 1 \/ (s[2] = FlushFrame /\ ShapeTail(SubSeq(s, 3, Len(s))))
       ELSE Head(s) = StopFrame /\ Len(s) = 1

\* C16: in every streaming session the frames sent so far form a prefix of
\* start, then zero or more (text, flush) pairs, then at most one stop: start is
\* first and sent once, every text frame is directly followed by a flush frame,
\* and nothing follows stop.
C16_OutboundShape ==
  mode = "stream" =>
    /\ sent = <<>> \/ (Head(sent) = StartFrame /\ ShapeTail(Tail(sent)))
    /\ (stask /= "none") = (sent /= <<>>)

\* C16 witness: start, two (text, flush) pairs and stop were sent
C16_Witness ==
  /\ stask = "done"
  /\ sent = <<StartFrame, Frame("text", <<"a">>), FlushFrame,
              Frame("text", <<" ", "a">>), FlushFrame, StopFrame>>

\* the sender is where the end of the input leaves it: nothing after a stop
\* frame, stop only in a started session
C17_StopState ==
  mode = "stream" =>
    /\ (spc = "send_stop" /\ stask = "pending") => (closed /\ started /\ pending = <<>>)
    /\ \A i \in DOMAIN sent : sent[i] = StopFrame => (started /\ closed /\ i = Len(sent))
    /\ stask = "done" => (closed /\ pending = <<>>)
    /\ (stask = "failed" /\ sexc.type = "LocalProtocolError") =>
         (StopFrame \notin {sent[i] : i \in DOMAIN sent} /\ result /= "ok")

\* the steps of the sender at the end of the input
C17_StopStep ==
  /\ (stask = "pending" /\ stask' \in {"pending", "done"} /\ closed'
        /\ spc \in {"next", "send_flush"} /\ spc' \in {"send_stop", "end"}) =>
       ((spc' = "send_stop") = started')
  /\ (spc = "send_stop" /\ stask = "pending" /\ stask' = "done") =>
       (sent' = Append(sent, StopFrame) \/ sent' = sent)
  /\ (spc = "send_stop" /\ stask = "pending" /\ stask' = "failed") =>
       (sexc'.type /= "LocalProtocolError" /\ sent' = sent)
  /\ (spc \in {"send_text", "send_flush"} /\ stask = "pending" /\ stask' = "done") =>
       sent' = Append(sent, FlushFrame)

\* C17: once the input channel is exhausted and the forced flush is over, the
\* sender goes on to send stop exactly if the session has started, and ends
\* otherwise; the sender ends normally whether the stop frame went out or its
\* send raised LocalProtocolError, which never fails the loop there; on a text
\* or flush send the loop never ends normally without the frame sent, and a
\* sender that failed with LocalProtocolError (so on text or flush) leaves a
\* session that does not succeed.
C17_StopSignalling == []C17_StopState /\ [][C17_StopStep]_vars

\* C17 witness: the send of stop raised LocalProtocolError, was swallowed, and
\* the session succeeded without a stop frame
C17_Witness ==
  /\ stask = "done" /\ started /\ closed /\ Last(sent) = FlushFrame
  /\ opc = "returned" /\ result = "ok"

\* the example of the claim: append "a", flush, append "a", close
ScenarioHiHi == <<TextItem(<<"a">>), FlushSentinel, TextItem(<<"a">>)>>

\* the step that takes the end of the input sends non-blank pending text even
\* when its trimmed value is the last one sent
C18_ForcedStep ==
  (~closed /\ closed' /\ Strip(Join(pending)) /= <<>>) =>
    (spc' = "send_text" /\ text_raw' = Join(pending) /\ pending' = <<>>)

\* the step that takes a flush marker drops pending text whose trimmed value is
\* the last one sent
C18_UnforcedStep ==
  (Len(inLog') = Len(inLog) + 1 /\ Last(inLog') = FlushSentinel
     /\ Strip(Join(pending)) /= <<>> /\ Strip(Join(pending)) = last_sent) =>
    (spc' = "next" /\ pending' = <<>> /\ sent' = sent)

\* with the example as input, a sender that ended normally has sent two text frames
C18_Example ==
  (mode = "stream" /\ inLog = ScenarioHiHi /\ closed /\ stask = "done") =>
    TextFrames(sent) = <<Frame("text", <<"a">>), Frame("text", <<"a">>)>>

\* C18: at the close of the input channel, non-blank pending text goes out as a
\* text/flush pair even when its trimmed value equals the last sent normalized
\* value (append "a", flush, append "a", close: two text frames), whereas the
\* same pending text at a flush marker is dropped.
C18_ForcedBypassesDedup ==
  []C18_Example /\ [][C18_ForcedStep /\ C18_UnforcedStep]_vars

\* C18 witness: the example ran to its end: the same text was sent twice
C18_Witness ==
  /\ inLog = ScenarioHiHi /\ closed
  /\ sent = <<StartFrame, Frame("text", <<"a">>), FlushFrame,
              Frame("text", <<"a">>), FlushFrame, StopFrame>>

RECURSIVE Split(_, _)
\* the raw text gathered at each flush marker of an input log, cur being the
\* text gathered since the last one
Split(log, cur) ==
  IF log = <<>> THEN <<>>
  ELSE IF Head(log).kind = "flush" THEN <<cur>> \o Split(Tail(log), <<>>)
  ELSE Split(Tail(log), cur \o Head(log).text)

\* the raw text at every flush boundary so far, the close of the input included
FlushedTexts ==
  Split(inLog, <<>>) \o (IF closed THEN <<Join(Trailing(inLog))>> ELSE <<>>)

SentTexts == [i \in 1..Len(TextFrames(sent)) |-> TextFrames(sent)[i].text]

RECURSIVE IsSubseq(_, _)
\* a is b with some elements left out
IsSubseq(a, b) ==
  IF a = <<>> THEN TRUE
  ELSE IF b = <<>> THEN FALSE
  ELSE IF Head(a) = Head(b) THEN IsSubseq(Tail(a), Tail(b))
  ELSE IsSubseq(a, Tail(b))

\* C19: the texts sent are, in order, raw (untrimmed) concatenations of the
\* fragments appended between two flush boundaries, each boundary used at most
\* once, none blank; the text about to be sent is that of the latest boundary;
\* the pending buffer holds exactly the fragments appended since the latest
\* boundary, so every flush, accepted or dropped, has emptied it and dropped
\* text is never sent later.
C19_Coalescing ==
  mode = "stream" =>
    /\ IsSubseq(SentTexts, FlushedTexts)
    /\ \A i \in DOMAIN SentTexts : Strip(SentTexts[i]) /= <<>>
    /\ (spc = "send_text" /\ stask = "pending") => text_raw = Last(FlushedTexts)
    /\ spc = "send_flush" => Last(sent) = Frame("text", Last(FlushedTexts))
    /\ pending = (IF closed THEN <<>> ELSE Trailing(inLog))

\* C19 witness: a blank flush was dropped, then "a" and " " went out as one
\* untrimmed text at the close
C19_Witness ==
  /\ inLog = <<TextItem(<<" ">>), FlushSentinel, TextItem(<<"a">>), TextItem(<<" ">>)>>
  /\ closed /\ stask = "done"
  /\ SentTexts = << <<"a", " ">> >>

\* C20: the operation returns successfully only when the sender loop has
\* consumed the input channel to its end and ended, and the receiver loop has
\* ended on a finish frame whose reason is not error; while one loop has ended
\* normally and the other still runs (a finish with the input still open, or
\* the input exhausted with no finish yet), the session stays in gather.
C20_JointCompletion ==
  mode = "stream" =>
    /\ result = "ok" =>
         (closed /\ pending = <<>> /\ stask = "done" /\ rtask = "done" /\ GotFinish("stop"))
    /\ (GotFinish("stop") /\ stask = "pending" /\ nCancel = 0) =>
         (opc = "gather" /\ gfut = "pending" /\ result = "running")
    /\ (stask = "done" /\ rtask = "pending" /\ nCancel = 0) =>
         (opc = "gather" /\ gfut = "pending" /\ result = "running")

\* C20 witness: text was sent, audio pushed, both loops ended: success
C20_Witness ==
  /\ opc = "returned" /\ result = "ok"
  /\ closed /\ stask = "done" /\ GotFinish("stop")
  /\ Pushes(sink) = <<"b1">> /\ SentTexts = << <<"a">> >>


====
